---- MODULE Spec2Model ----
(***************************************************************************)
(* Ingestion jobs (LoadWorker), the signal queue between the worker pool   *)
(* and the GUI thread, and the merge state kept by MainWindow.             *)
(*                                                                         *)
(* Text is a sequence of one-character strings, so that strip(), lower()   *)
(* and replace() are computed and not assumed.                             *)
(***************************************************************************)
EXTENDS Integers, Sequences, FiniteSets, TLC

\* ------------------------------------------------------------------ bounds
MaxJobs == 3      \* LoadWorkers created in one run of the application
MaxResets == 1    \* runs of clear_all in one run of the application
MaxStops == 1     \* clicks on "Cancelar" in one run of the application
MaxCols == 3      \* columns of a dataset handed to a library function
MaxRows == 2      \* rows of a dataset handed to a library function
MaxPages == 2     \* pages of a pdf handed to load_file
MaxTables == 1    \* tables on one page of a pdf

\* ------------------------------------------------------------- text model
WS == {" ", "\n"}

\* str.lower() on one character
LowerChar(c) ==
    CASE c = "N" -> "n"
      [] c = "O" -> "o"
      [] c = "E" -> "e"
      [] c = "A" -> "a"
      [] c = "X" -> "x"
      [] OTHER -> c

\* str.lower()
Lower(s) == [i \in 1..Len(s) |-> LowerChar(s[i])]

\* str.replace("\n", " ")
ReplaceNewline(s) == [i \in 1..Len(s) |-> IF s[i] = "\n" THEN " " ELSE s[i]]

RECURSIVE LStrip(_)
LStrip(s) == IF s # <<>> /\ Head(s) \in WS THEN LStrip(Tail(s)) ELSE s

RECURSIVE RStrip(_)
RStrip(s) ==
    IF s # <<>> /\ s[Len(s)] \in WS THEN RStrip(SubSeq(s, 1, Len(s) - 1)) ELSE s

\* str.strip()
Strip(s) == RStrip(LStrip(s))

\* A header cell is a str or an int (pandas keeps non-text spreadsheet headers).
StrCell(s) == [t |-> "str", s |-> s, n |-> 0]
IntCell(n) == [t |-> "int", s |-> <<>>, n |-> n]

\* a missing header cell (None)
NoneCell == [t |-> "none", s |-> <<>>, n |-> 0]

\* str(n) of an int below 10
DecimalDigit(n) == <<"0", "1", "2", "3", "4", "5", "6", "7", "8", "9">>[n + 1]

\* str(c)
ToStr(c) ==
    CASE c.t = "str" -> c.s
      [] c.t = "int" -> <<DecimalDigit(c.n)>>
      [] OTHER -> <<"N", "o", "n", "e">>

\* Python truthiness of a header cell: "" and 0 are falsy
Truthy(c) == IF c.t = "str" THEN c.s # <<>> ELSE c.n # 0

\* ------------------------------------------------------------- file system
\* The files the user can pick.  name is Path(path).name, ext its extension.
Files == <<
    [dir |-> "A", name |-> "a.csv", ext |-> "csv",
     header |-> <<StrCell(<<"x">>), StrCell(<<"y">>)>>, nrows |-> 1],
    [dir |-> "B", name |-> "a.csv", ext |-> "csv",
     header |-> <<StrCell(<<"x">>), StrCell(<<"z">>)>>, nrows |-> 2],
    [dir |-> "A", name |-> "b.pdf", ext |-> "pdf",
     header |-> <<StrCell(<<"y", " ">>), StrCell(<<"N", "o", "n", "e">>),
                  StrCell(<<"x", "\n">>), StrCell(<<"x">>)>>, nrows |-> 2],
    [dir |-> "A", name |-> "e.xls", ext |-> "xls",
     header |-> <<StrCell(<<"x">>), StrCell(<<"y">>)>>, nrows |-> 3],
    [dir |-> "A", name |-> "c.txt", ext |-> "txt",
     header |-> <<StrCell(<<"x">>)>>, nrows |-> 1],
    [dir |-> "A", name |-> "d.xlsx", ext |-> "xlsx",
     header |-> <<IntCell(7), StrCell(<<"x">>)>>, nrows |-> 1]
>>

Paths == 1..Len(Files)

\* detect_file_type
detect_file_type(p) ==
    CASE Files[p].ext = "csv" -> "csv"
      [] Files[p].ext \in {"xls", "xlsx"} -> "excel"
      [] Files[p].ext = "pdf" -> "pdf"
      [] OTHER -> "unknown"

\* A pdf is its pages; a page is [tables, text], text = <<>> when
\* extract_text() gives None or ""; a table of extract_tables() is
\* [first, nrows]: its first row and its number of rows (first = <<>>, nrows = 0
\* for an empty table, which pd.DataFrame(t).iloc[0] rejects and the loop skips).
\* df_page of a table: the first row becomes the header when all its cells are
\* str, otherwise the columns are 0, 1, ...; then str(c).strip() on each.
PageFrame(t) ==
    IF \A i \in 1..Len(t.first) : t.first[i].t = "str"
    THEN [cols |-> [i \in 1..Len(t.first) |-> StrCell(Strip(ToStr(t.first[i])))],
          rows |-> t.nrows - 1]
    ELSE [cols |-> [i \in 1..Len(t.first) |-> StrCell(Strip(ToStr(IntCell(i - 1))))],
          rows |-> t.nrows]

RECURSIVE PageFrames(_)
\* the list tables after the loop over the pages
PageFrames(pages) ==
    IF pages = <<>> THEN <<>>
    ELSE LET ts == SelectSeq(Head(pages).tables, LAMBDA t : t.nrows > 0)
         IN  [i \in 1..Len(ts) |-> PageFrame(ts[i])] \o PageFrames(Tail(pages))

RECURSIVE UnionCols(_, _)
\* column index of pd.concat(norm_tables, sort=False)
UnionCols(ts, acc) ==
    IF ts = <<>> THEN acc
    ELSE UnionCols(Tail(ts),
                   acc \o SelectSeq(Head(ts).cols, LAMBDA c : c \notin {acc[i] : i \in 1..Len(acc)}))

RECURSIVE SumRows(_)
SumRows(ts) == IF ts = <<>> THEN 0 ELSE Head(ts).rows + SumRows(Tail(ts))

\* the pdf branch of load_file: the concatenated tables, or, with no table,
\* a DataFrame with the column 'text' and one row per page
load_pdf(pages) ==
    LET tables == PageFrames(pages) IN
    IF tables # <<>>
    THEN [ok |-> TRUE, cols |-> UnionCols(tables, <<>>), rows |-> SumRows(tables)]
    ELSE [ok |-> TRUE, cols |-> <<StrCell(<<"t", "e", "x", "t">>)>>, rows |-> Len(pages)]

\* the pages of the pdf file p: one page with one table
Pages(p) ==
    <<[tables |-> <<[first |-> Files[p].header, nrows |-> Files[p].nrows + 1]>>,
       text |-> <<"x">>]>>

\* load_file: [ok, cols, rows]; ok = FALSE is a raised FileHandlerError.
load_file(p) ==
    LET ftype == detect_file_type(p) IN
    CASE ftype \in {"csv", "excel"} ->
            [ok |-> TRUE, cols |-> Files[p].header, rows |-> Files[p].nrows]
      [] ftype = "pdf" -> load_pdf(Pages(p))
      [] OTHER -> [ok |-> FALSE, cols |-> <<>>, rows |-> 0]

\* [c for c in df.columns if c and c.lower() != "none"]
RECURSIVE KeepColumns(_)
KeepColumns(cols) ==
    IF cols = <<>> THEN <<>>
    ELSE IF Truthy(Head(cols)) /\ Lower(Head(cols).s) # <<"n", "o", "n", "e">>
         THEN <<Head(cols)>> \o KeepColumns(Tail(cols))
         ELSE KeepColumns(Tail(cols))

\* ~columns.duplicated(): keep the first occurrence of every name
RECURSIVE DropDuplicated(_, _)
DropDuplicated(s, seen) ==
    IF s = <<>> THEN <<>>
    ELSE IF Head(s) \in seen THEN DropDuplicated(Tail(s), seen)
         ELSE <<Head(s)>> \o DropDuplicated(Tail(s), seen \cup {Head(s)})

\* fix_columns on the column names: [ok, cols]; ok = FALSE is the
\* AttributeError of c.lower() on a truthy header that is no str.
fix_columns(cols) ==
    LET raises == \E i \in 1..Len(cols) : Truthy(cols[i]) /\ cols[i].t # "str"
        kept == KeepColumns(cols)
        renamed == [i \in 1..Len(kept) |-> Strip(ReplaceNewline(ToStr(kept[i])))]
    IN  IF raises THEN [ok |-> FALSE, cols |-> <<>>]
        ELSE [ok |-> TRUE, cols |-> DropDuplicated(renamed, {})]

\* normalize_dataframe rewrites cell values only: the columns and the number
\* of rows of its result are those of its argument
normalize_dataframe(df) == [cols |-> df.cols, rows |-> df.rows]

\* A cell of an object column: a str, or NaN (t = "nan") for a missing value;
\* to_numeric gives a float (t = "num", s its digits) or NaN.
NaN == [t |-> "nan", s |-> <<>>]
Text(s) == [t |-> "str", s |-> s]
Number(s) == [t |-> "num", s |-> s]

\* Series.astype(str) on one cell: NaN becomes the text "nan"
astype_str(c) == IF c.t = "nan" THEN <<"n", "a", "n">> ELSE c.s

RECURSIVE CollapseSpaces(_)
\* str.replace(r"\s+", " ", regex=True)
CollapseSpaces(s) ==
    IF s = <<>> THEN <<>>
    ELSE IF Head(s) \in WS
         THEN IF Tail(s) # <<>> /\ Head(Tail(s)) \in WS
              THEN CollapseSpaces(Tail(s))
              ELSE <<" ">> \o CollapseSpaces(Tail(s))
         ELSE <<Head(s)>> \o CollapseSpaces(Tail(s))

\* str.replace(",", ".")
ReplaceComma(s) == [i \in 1..Len(s) |-> IF s[i] = "," THEN "." ELSE s[i]]

Digits == {"1", "5", "7"}

\* the texts pd.to_numeric parses: digits with at most one decimal point
IsNumber(s) ==
    /\ \A i \in 1..Len(s) : s[i] \in Digits \cup {"."}
    /\ \E i \in 1..Len(s) : s[i] \in Digits
    /\ Cardinality({i \in 1..Len(s) : s[i] = "."}) <= 1

\* pd.to_numeric(..., errors="coerce") on one cell of text
to_numeric(s) == IF IsNumber(s) THEN Number(s) ELSE NaN

\* the statement of the for loop of normalize_dataframe on one object column
canonical(col) ==
    [k \in 1..Len(col) |-> Text(Lower(CollapseSpaces(Strip(astype_str(col[k])))))]

\* the try statement after the for loop on the column col is bound to
coerced(col) ==
    [k \in 1..Len(col) |-> to_numeric(ReplaceComma(astype_str(col[k])))]

\* normalize_dataframe on the cells, data[i] being the i-th column: the loop
\* over the columns, then the try statement once, on the last column (with
\* no column the NameError of col is swallowed by the except clause)
normalize_cells(data) ==
    LET looped == [i \in 1..Len(data) |-> canonical(data[i])]
    IN  IF data = <<>> THEN looped
        ELSE [looped EXCEPT ![Len(data)] = coerced(looped[Len(data)])]

\* The body of LoadWorker.run's try block on a path, without the checkpoints:
\* stage is "load" or "fix" when that call raises, "ok" when a dataset results.
Pipeline(p) ==
    LET l == load_file(p)
        f == fix_columns(l.cols)
    IN  IF ~l.ok THEN [stage |-> "load", cols |-> <<>>, rows |-> 0]
        ELSE IF ~f.ok THEN [stage |-> "fix", cols |-> <<>>, rows |-> 0]
        ELSE [stage |-> "ok"] @@ normalize_dataframe([cols |-> f.cols, rows |-> l.rows])

\* ------------------------------------------------------------- datasets
\* A DataFrame object: src is the job that produced it (0: built by pd.concat).
None == [src |-> -1, cols |-> <<>>, rows |-> 0]

Range(s) == {s[i] : i \in 1..Len(s)}

\* the characters in use, in code point order
Alphabet ==
    <<"\n", " ", ",", ".", "0", "1", "2", "3", "4", "5", "6", "7", "8", "9",
      "A", "E", "N", "O", "X", "a", "e", "n", "o", "t", "x", "y", "z">>

\* order of one-character strings, for sorted()
CharOrd(c) == CHOOSE i \in 1..Len(Alphabet) : Alphabet[i] = c

RECURSIVE TextLess(_, _)
\* a < b on str
TextLess(a, b) ==
    IF b = <<>> THEN FALSE
    ELSE IF a = <<>> THEN TRUE
    ELSE IF Head(a) # Head(b) THEN CharOrd(Head(a)) < CharOrd(Head(b))
    ELSE TextLess(Tail(a), Tail(b))

RECURSIVE Sorted(_)
\* sorted(list(S))
Sorted(S) ==
    IF S = {} THEN <<>>
    ELSE LET m == CHOOSE x \in S : \A y \in S \ {x} : TextLess(x, y)
         IN  <<m>> \o Sorted(S \ {m})

\* compare_columns listing the common columns in the order of df1
compare_columns_CommonUnsorted(df1, df2) ==
    LET set1 == Range(df1.cols)
        set2 == Range(df2.cols)
        only_in_df1 == Sorted(set1 \ set2)
        only_in_df2 == Sorted(set2 \ set1)
    IN  [is_equal |-> Len(only_in_df1) = 0 /\ Len(only_in_df2) = 0,
         only_in_df1 |-> only_in_df1,
         only_in_df2 |-> only_in_df2,
         common |-> SelectSeq(df1.cols, LAMBDA c : c \in set2),
         cols1 |-> df1.cols,
         cols2 |-> df2.cols]

\* compare_columns on lower-cased names
compare_columns_CaseInsensitive(df1, df2) ==
    LET set1 == {Lower(c) : c \in Range(df1.cols)}
        set2 == {Lower(c) : c \in Range(df2.cols)}
        only_in_df1 == Sorted(set1 \ set2)
        only_in_df2 == Sorted(set2 \ set1)
    IN  [is_equal |-> Len(only_in_df1) = 0 /\ Len(only_in_df2) = 0,
         only_in_df1 |-> only_in_df1,
         only_in_df2 |-> only_in_df2,
         common |-> Sorted(set1 \cap set2),
         cols1 |-> df1.cols,
         cols2 |-> df2.cols]

\* compare_columns
compare_columns(df1, df2) ==
    LET set1 == Range(df1.cols)
        set2 == Range(df2.cols)
        only_in_df1 == Sorted(set1 \ set2)
        only_in_df2 == Sorted(set2 \ set1)
    IN  [is_equal |-> Len(only_in_df1) = 0 /\ Len(only_in_df2) = 0,
         only_in_df1 |-> only_in_df1,
         only_in_df2 |-> only_in_df2,
         common |-> Sorted(set1 \cap set2),
         cols1 |-> df1.cols,
         cols2 |-> df2.cols]

RECURSIVE ConcatCols(_, _)
\* column index of pd.concat: the union of the columns, first seen first
ConcatCols(dfs, acc) ==
    IF dfs = <<>> THEN acc
    ELSE ConcatCols(Tail(dfs),
                    acc \o DropDuplicated(Head(dfs).cols, Range(acc)))

RECURSIVE ConcatRows(_)
ConcatRows(dfs) == IF dfs = <<>> THEN 0 ELSE Head(dfs).rows + ConcatRows(Tail(dfs))

\* pd.concat(dfs[1:], ignore_index=True)
Concat_SkipsFirst(dfs) ==
    [src |-> 0, cols |-> ConcatCols(Tail(dfs), <<>>), rows |-> ConcatRows(Tail(dfs))]

\* pd.concat(dfs, ignore_index=True)
Concat(dfs) == [src |-> 0, cols |-> ConcatCols(dfs, <<>>), rows |-> ConcatRows(dfs)]

\* ------------------------------------------------------------------ state
VARIABLES
    path,           \* path[j]: LoadWorker.path of job j, in order of creation
    pc,             \* pc[j]: where job j's run() is
    canceled,       \* canceled[j]: LoadWorker._canceled
    emitted,        \* emitted[j]: the signals job j has emitted, in order
    queue,          \* signals posted to the GUI thread and not yet delivered
    loaded_files,   \* MainWindow.loaded_files
    all_dataframes, \* MainWindow.all_dataframes
    current_df,     \* MainWindow.current_df
    stack,          \* GUI-thread handlers waiting in a modal dialog, innermost last
    resets,         \* number of clear_all calls so far
    epoch,          \* epoch[j]: value of resets when job j was submitted
    log,            \* jobs whose result reached _on_load_result since the last clear_all
    compared,       \* indices passed to compare_columns by the last _on_load_result
    call            \* a library function applied on its own: [fn, in, out]

vars == <<path, pc, canceled, emitted, queue, loaded_files, all_dataframes,
          current_df, stack, resets, epoch, log, compared, call>>

worker == <<pc, emitted>>
merge == <<loaded_files, all_dataframes, current_df>>

Jobs == 1..Len(path)

\* the DataFrame job j passes to result.emit
Df(j) == [src |-> j, cols |-> Pipeline(path[j]).cols, rows |-> Pipeline(path[j]).rows]

\* Path(path).name
Filename(j) == Files[path[j]].name

\* no function is applied outside the application
NoCall == [fn |-> "none", in |-> <<>>, out |-> <<>>]

Snapshot == [files |-> loaded_files, dfs |-> all_dataframes, cur |-> current_df]

Init ==
    /\ path = <<>>
    /\ pc = <<>>
    /\ canceled = <<>>
    /\ emitted = <<>>
    /\ queue = <<>>
    /\ loaded_files = <<>>
    /\ all_dataframes = <<>>
    /\ current_df = None
    /\ stack = <<>>
    /\ resets = 0
    /\ epoch = <<>>
    /\ log = <<>>
    /\ compared = {}
    /\ call = NoCall

\* ----------------------------------------------------------- LoadWorker
\* signals.<sig>.emit(): the connected lambda is queued to the GUI thread
Emit(j, sig) ==
    /\ emitted' = [emitted EXCEPT ![j] = Append(@, sig)]
    /\ queue' = Append(queue, [sig |-> sig, job |-> j])

\* run(), up to the call of load_file: the first checkpoint
RunStart(j) ==
    /\ pc[j] = "queued"
    /\ IF canceled[j]
       THEN Emit(j, "finished") /\ pc' = [pc EXCEPT ![j] = "done"]
       ELSE pc' = [pc EXCEPT ![j] = "load"] /\ UNCHANGED <<emitted, queue>>
    /\ UNCHANGED <<path, canceled, merge, stack, resets, epoch, log, compared, call>>

\* RunLoad without the checkpoint after load_file
RunLoad_NoCheckpoint(j) ==
    /\ pc[j] = "load"
    /\ IF Pipeline(path[j]).stage = "load"
       THEN Emit(j, "error") /\ pc' = [pc EXCEPT ![j] = "done"]
       ELSE pc' = [pc EXCEPT ![j] = "fix"] /\ UNCHANGED <<emitted, queue>>
    /\ UNCHANGED <<path, canceled, merge, stack, resets, epoch, log, compared, call>>

\* load_file returns or raises; on return the second checkpoint is read
RunLoad(j) ==
    /\ pc[j] = "load"
    /\ IF Pipeline(path[j]).stage = "load"
       THEN Emit(j, "error") /\ pc' = [pc EXCEPT ![j] = "done"]
       ELSE IF canceled[j]
       THEN Emit(j, "finished") /\ pc' = [pc EXCEPT ![j] = "done"]
       ELSE pc' = [pc EXCEPT ![j] = "fix"] /\ UNCHANGED <<emitted, queue>>
    /\ UNCHANGED <<path, canceled, merge, stack, resets, epoch, log, compared, call>>

\* RunProcess with a statement that raises after result.emit, inside the try
RunProcess_RaisesAfterEmit(j) ==
    /\ pc[j] = "fix"
    /\ emitted' = [emitted EXCEPT ![j] = @ \o <<"result", "error">>]
    /\ queue' = queue \o <<[sig |-> "result", job |-> j], [sig |-> "error", job |-> j]>>
    /\ pc' = [pc EXCEPT ![j] = "done"]
    /\ UNCHANGED <<path, canceled, merge, stack, resets, epoch, log, compared, call>>

\* fix_columns and normalize_dataframe, then result.emit(df), or the except clause
RunProcess(j) ==
    /\ pc[j] = "fix"
    /\ IF Pipeline(path[j]).stage = "fix"
       THEN Emit(j, "error") /\ pc' = [pc EXCEPT ![j] = "done"]
       ELSE Emit(j, "result") /\ pc' = [pc EXCEPT ![j] = "emitted"]
    /\ UNCHANGED <<path, canceled, merge, stack, resets, epoch, log, compared, call>>

\* the finished.emit() after the try statement
RunFinish(j) ==
    /\ pc[j] = "emitted"
    /\ Emit(j, "finished")
    /\ pc' = [pc EXCEPT ![j] = "done"]
    /\ UNCHANGED <<path, canceled, merge, stack, resets, epoch, log, compared, call>>

\* The progress dialog of job j is created by _load_file_async and closed by
\* _on_load_finished or _on_load_error.
ProgressOpen(j) ==
    \/ pc[j] # "done"
    \/ \E i \in 1..Len(queue) : queue[i].job = j /\ queue[i].sig \in {"finished", "error"}

\* "Cancelar" hides the dialog; until then it is window-modal on the main window
ProgressVisible(j) == ProgressOpen(j) /\ ~canceled[j]

\* The main window takes input: no message box and no progress dialog is up.
Idle == stack = <<>> /\ \A j \in Jobs : ~ProgressVisible(j)

\* stop() on a flag shared by every LoadWorker
stop_SharedFlag(j) ==
    /\ stack = <<>>
    /\ ProgressVisible(j)
    /\ Cardinality({k \in Jobs : canceled[k]}) < MaxStops
    /\ canceled' = [k \in Jobs |-> TRUE]
    /\ UNCHANGED <<path, worker, queue, merge, stack, resets, epoch, log, compared, call>>

\* stop(), connected to the canceled signal of the job's progress dialog
stop(j) ==
    /\ stack = <<>>
    /\ ProgressVisible(j)
    /\ Cardinality({k \in Jobs : canceled[k]}) < MaxStops
    /\ canceled' = [canceled EXCEPT ![j] = TRUE]
    /\ UNCHANGED <<path, worker, queue, merge, stack, resets, epoch, log, compared, call>>

\* ------------------------------------------------------------ MainWindow
\* _load_file_async for each path of ps, in order: a LoadWorker is created
\* and handed to the thread pool
Submit(ps, e) ==
    /\ path' = path \o ps
    /\ pc' = pc \o [i \in 1..Len(ps) |-> "queued"]
    /\ canceled' = canceled \o [i \in 1..Len(ps) |-> FALSE]
    /\ emitted' = emitted \o [i \in 1..Len(ps) |-> <<>>]
    /\ epoch' = epoch \o [i \in 1..Len(ps) |-> e]

\* clear_all without all_dataframes.clear()
Clear_KeepsDataframes ==
    /\ current_df' = None
    /\ loaded_files' = <<>>
    /\ all_dataframes' = all_dataframes
    /\ resets' = resets + 1
    /\ log' = <<>>

\* the assignments of clear_all
Clear ==
    /\ current_df' = None
    /\ loaded_files' = <<>>
    /\ all_dataframes' = <<>>
    /\ resets' = resets + 1
    /\ log' = <<>>

\* what a file dialog can return: distinct files of one directory
Selections ==
    {ps \in UNION {[1..n -> Paths] : n \in 1..(MaxJobs - Len(path))} :
        /\ \A i, k \in 1..Len(ps) : i # k => ps[i] # ps[k]
        /\ \A i \in 1..Len(ps) : Files[ps[i]].dir = Files[ps[1]].dir}

clear_all ==
    /\ Idle
    /\ resets < MaxResets
    /\ Clear
    /\ UNCHANGED <<path, pc, canceled, emitted, epoch, queue, stack, compared, call>>

open_file ==
    /\ Idle
    /\ resets < MaxResets
    /\ \E p \in Paths :
          /\ Len(path) < MaxJobs
          /\ Clear
          /\ Submit(<<p>>, resets + 1)
    /\ UNCHANGED <<queue, stack, compared, call>>

open_multiple_files ==
    /\ Idle
    /\ resets < MaxResets
    /\ \E ps \in Selections :
          /\ Clear
          /\ Submit(ps, resets + 1)
    /\ UNCHANGED <<queue, stack, compared, call>>

add_file ==
    /\ Idle
    /\ \E p \in Paths :
          /\ Len(path) < MaxJobs
          /\ Submit(<<p>>, resets)
    /\ UNCHANGED <<queue, merge, stack, resets, log, compared, call>>

\* the indices i >= 1 (here from 2) whose compare_columns with the first fails
Incompatible(dfs) ==
    {i \in 2..Len(dfs) : ~compare_columns(dfs[1], dfs[i]).is_equal}

RECURSIVE IncompatibleFiles(_, _, _)
\* incompatible_files of _validate_and_merge_dataframes: the file names
IncompatibleFiles(files, dfs, i) ==
    IF i > Len(dfs) THEN <<>>
    ELSE (IF i \in Incompatible(dfs) THEN <<files[i]>> ELSE <<>>)
         \o IncompatibleFiles(files, dfs, i + 1)

\* list.index(x): 0 when x is not in the list (ValueError)
Index(s, x) ==
    IF \E i \in 1..Len(s) : s[i] = x
    THEN CHOOSE i \in 1..Len(s) : s[i] = x /\ \A k \in 1..(i - 1) : s[k] # x
    ELSE 0

\* list.pop(idx)
Pop(s, idx) == SubSeq(s, 1, idx - 1) \o SubSeq(s, idx + 1, Len(s))

RECURSIVE RemoveIncompatible(_, _, _)
\* the removal loop of _validate_and_merge_dataframes; a ValueError of
\* index() ends it with the lists as they are then
RemoveIncompatible(files, dfs, items) ==
    IF items = <<>> THEN [files |-> files, dfs |-> dfs, raised |-> FALSE]
    ELSE LET idx == Index(files, Head(items)) IN
         IF idx = 0 THEN [files |-> files, dfs |-> dfs, raised |-> TRUE]
         ELSE RemoveIncompatible(Pop(files, idx), Pop(dfs, idx), Tail(items))

Frame(kind, j, items, pre) == [kind |-> kind, job |-> j, items |-> items, pre |-> pre]

\* _on_load_result testing len(self.all_dataframes) == 0 after the append: the
\* first dataset goes to _validate_and_merge_dataframes, which returns at once
_on_load_result_OffByOne(j) ==
    LET files1 == Append(loaded_files, Filename(j))
        dfs1 == Append(all_dataframes, Df(j))
        bad == IncompatibleFiles(files1, dfs1, 2)
    IN  /\ loaded_files' = files1
        /\ all_dataframes' = dfs1
        /\ log' = Append(log, j)
        /\ IF Len(dfs1) < 2
           THEN /\ current_df' = current_df
                /\ compared' = {}
                /\ stack' = stack
           ELSE /\ compared' = 2..Len(dfs1)
                /\ IF bad # <<>>
                   THEN /\ current_df' = current_df
                        /\ stack' = Append(stack, Frame("warning", j, bad, Snapshot))
                   ELSE /\ current_df' = Concat(dfs1)
                        /\ stack' = Append(stack, Frame("information", j, <<>>, Snapshot))

\* _on_load_result, up to its return or to the message box of
\* _validate_and_merge_dataframes / _merge_all_dataframes
_on_load_result(j) ==
    LET files1 == Append(loaded_files, Filename(j))
        dfs1 == Append(all_dataframes, Df(j))
        bad == IncompatibleFiles(files1, dfs1, 2)
    IN  /\ loaded_files' = files1
        /\ all_dataframes' = dfs1
        /\ log' = Append(log, j)
        /\ IF Len(dfs1) = 1
           THEN /\ current_df' = Df(j)
                /\ compared' = {}
                /\ stack' = stack
           ELSE /\ compared' = 2..Len(dfs1)
                /\ IF bad # <<>>
                   THEN /\ current_df' = current_df
                        /\ stack' = Append(stack, Frame("warning", j, bad, Snapshot))
                   ELSE /\ current_df' = Concat(dfs1)
                        /\ stack' = Append(stack, Frame("information", j, <<>>, Snapshot))

\* _on_load_finished
_on_load_finished(j) ==
    UNCHANGED <<merge, stack, log, compared>>

\* _on_load_error that also discards what was loaded
_on_load_error_Discards(j) ==
    /\ stack' = Append(stack, Frame("critical", j, <<>>, Snapshot))
    /\ loaded_files' = <<>>
    /\ all_dataframes' = <<>>
    /\ current_df' = None
    /\ UNCHANGED <<log, compared>>

\* _on_load_error, up to its message box
_on_load_error(j) ==
    /\ stack' = Append(stack, Frame("critical", j, <<>>, Snapshot))
    /\ UNCHANGED <<merge, log, compared>>

\* The event loop of the GUI thread (the main one or that of the innermost
\* message box) takes the next queued signal and calls the connected lambda.
Deliver ==
    /\ queue # <<>>
    /\ queue' = Tail(queue)
    /\ LET m == Head(queue) IN
         CASE m.sig = "result" -> _on_load_result(m.job)
           [] m.sig = "finished" -> _on_load_finished(m.job)
           [] m.sig = "error" -> _on_load_error(m.job)
    /\ UNCHANGED <<path, pc, canceled, emitted, resets, epoch, call>>

\* The user closes the innermost message box and its handler runs to its end.
Dismiss ==
    /\ stack # <<>>
    /\ LET f == stack[Len(stack)]
           r == RemoveIncompatible(loaded_files, all_dataframes, f.items)
       IN  /\ stack' = SubSeq(stack, 1, Len(stack) - 1)
           /\ IF f.kind = "warning"
              THEN /\ loaded_files' = r.files
                   /\ all_dataframes' = r.dfs
              ELSE /\ UNCHANGED <<loaded_files, all_dataframes>>
    /\ UNCHANGED <<path, pc, canceled, emitted, queue, current_df, resets, epoch,
                   log, compared, call>>

Next ==
    \/ \E j \in Jobs : RunStart(j)
    \/ \E j \in Jobs : RunLoad(j)
    \/ \E j \in Jobs : RunProcess(j)
    \/ \E j \in Jobs : RunFinish(j)
    \/ \E j \in Jobs : stop(j)
    \/ clear_all
    \/ open_file
    \/ open_multiple_files
    \/ add_file
    \/ Deliver
    \/ Dismiss

Spec == Init /\ [][Next]_vars

\* ------------------------------------------- library functions on their own
\* Each function of file_handler.py and data_processing.py is applied once to
\* an argument of a bounded domain; call records the argument and the value.
application == <<path, pc, canceled, emitted, queue, loaded_files, all_dataframes,
                 current_df, stack, resets, epoch, log, compared>>

\* column names as fix_columns leaves them: text, case kept
ColNames == {<<"x">>, <<"X">>, <<"y">>}

\* the column indexes of at most MaxCols distinct names, in every order
Headers ==
    {h \in UNION {[1..n -> ColNames] : n \in 0..MaxCols} :
        \A i, k \in 1..Len(h) : i # k => h[i] # h[k]}

\* DataFrames as LoadWorker emits them
Frames == {[src |-> 0, cols |-> h, rows |-> r] : h \in Headers, r \in 0..MaxRows}

\* compare_columns(df1, df2), compare_columns(df2, df1) and
\* compare_columns(other, df2), other a DataFrame with the columns of df1
CallCompare ==
    /\ call.fn = "none"
    /\ \E df1, df2, other \in Frames :
          /\ Range(other.cols) = Range(df1.cols)
          /\ call' = [fn |-> "compare_columns",
                      in |-> <<df1, df2, other>>,
                      out |-> <<compare_columns(df1, df2),
                                compare_columns(df2, df1),
                                compare_columns(other, df2)>>]
    /\ UNCHANGED application

\* the header cells a reader can produce: empty, blank, padded, broken over
\* two lines, "None" in several spellings, and numbers
HeaderCells ==
    {StrCell(<<>>), StrCell(<<" ">>), StrCell(<<"x">>), StrCell(<<"x", " ">>),
     StrCell(<<"\n", "y">>), StrCell(<<"N", "o", "n", "e">>),
     StrCell(<<"n", "o", "n", "e", "\n">>), IntCell(0), IntCell(7)}

\* the header rows of at most MaxCols cells
HeaderRows == UNION {[1..n -> HeaderCells] : n \in 0..MaxCols}

\* fix_columns(df) on a DataFrame with the header row h
CallFix ==
    /\ call.fn = "none"
    /\ \E h \in HeaderRows :
          call' = [fn |-> "fix_columns", in |-> h, out |-> fix_columns(h)]
    /\ UNCHANGED application

\* the cells read_csv(dtype=str) gives: a missing value, a number written
\* with a decimal comma, and text with capitals and runs of blanks
CellValues ==
    {NaN, Text(<<"1", ",", "5">>), Text(<<" ", "A", " ", "\n", "a">>)}

\* the tables of at most MaxCols object columns and at most MaxRows rows
Tables ==
    UNION {[1..n -> [1..r -> CellValues]] : n \in 0..MaxCols, r \in 0..MaxRows}

\* normalize_dataframe(df) on the cells of df
CallNormalize ==
    /\ call.fn = "none"
    /\ \E data \in Tables :
          call' = [fn |-> "normalize_dataframe", in |-> data,
                   out |-> normalize_cells(data)]
    /\ UNCHANGED application

\* the tables extract_tables() finds: an empty one, one with a header row of
\* text, and one whose first row has a missing cell
PageTables ==
    {[first |-> <<>>, nrows |-> 0],
     [first |-> <<StrCell(<<"x">>), StrCell(<<"y", " ">>)>>, nrows |-> 2],
     [first |-> <<NoneCell, StrCell(<<"x">>)>>, nrows |-> 1]}

\* a page: at most MaxTables tables, and text or none
PdfPages ==
    [tables : UNION {[1..n -> PageTables] : n \in 0..MaxTables},
     text : {<<>>, <<"x">>}]

\* load_file(path) on a pdf of at most MaxPages pages
CallLoadPdf ==
    /\ call.fn = "none"
    /\ \E pages \in UNION {[1..n -> PdfPages] : n \in 0..MaxPages} :
          call' = [fn |-> "load_file", in |-> pages, out |-> load_pdf(pages)]
    /\ UNCHANGED application

NextFunctions ==
    \/ CallCompare
    \/ CallFix
    \/ CallNormalize
    \/ CallLoadPdf

SpecFunctions == Init /\ [][NextFunctions]_vars

\* ---------------------------------------------------------------- claims
\* how many times signal sig is in a job's emissions
Count(em, sig) == Cardinality({i \in 1..Len(em) : em[i] = sig})

\* C1, as stated: every job emits at most one result and at most one error,
\* never both, and a job that has ended has emitted exactly one of the two.
C1_EndsWithResultOrError ==
    \A j \in Jobs :
        /\ Count(emitted[j], "result") <= 1
        /\ Count(emitted[j], "error") <= 1
        /\ Count(emitted[j], "result") + Count(emitted[j], "error") <= 1
        /\ pc[j] = "done" =>
              Count(emitted[j], "result") + Count(emitted[j], "error") = 1

\* C1, amended: every job emits at most one result and at most one error,
\* never both; a job that has ended has emitted exactly one of the two, or,
\* having read its cancellation flag set at a checkpoint, only "finished".
C1_OneOutcome ==
    \A j \in Jobs :
        /\ Count(emitted[j], "result") <= 1
        /\ Count(emitted[j], "error") <= 1
        /\ Count(emitted[j], "result") + Count(emitted[j], "error") <= 1
        /\ pc[j] = "done" =>
              \/ Count(emitted[j], "result") + Count(emitted[j], "error") = 1
              \/ canceled[j] /\ emitted[j] = <<"finished">>

\* three jobs have ended, one with a dataset, one with an error and one cancelled
C1_Witness ==
    \E j, k, m \in Jobs :
        /\ pc[j] = "done" /\ emitted[j] = <<"result", "finished">>
        /\ pc[k] = "done" /\ emitted[k] = <<"error">>
        /\ pc[m] = "done" /\ emitted[m] = <<"finished">> /\ canceled[m]

\* C2: once stop() has been called on a job that has emitted neither result
\* nor error, the job emits neither of them, ever (what is emitted is delivered
\* to _on_load_result / _on_load_error).
C2_CancelledNeverDelivers ==
    [][\A j \in Jobs :
          (canceled[j] /\ Count(emitted[j], "result") + Count(emitted[j], "error") = 0)
          => Count(emitted'[j], "result") + Count(emitted'[j], "error") = 0]_vars

\* C3: a job that reaches a checkpoint (the start of run, or the return of
\* load_file) with its flag set emits "finished" once, ends, and emits neither
\* result nor error, then or later.
C3_CheckpointCancels ==
    [][\A j \in Jobs :
          /\ ( /\ canceled[j]
               /\ pc'[j] # pc[j]
               /\ \/ pc[j] = "queued"
                  \/ pc[j] = "load" /\ load_file(path[j]).ok )
             => pc'[j] = "done" /\ emitted'[j] = <<"finished">>
          /\ pc[j] = "done" => pc'[j] = "done" /\ emitted'[j] = emitted[j]]_vars

\* a job cancelled while load_file ran has ended at the second checkpoint
C3_Witness ==
    \E j \in Jobs :
        /\ pc[j] = "done" /\ canceled[j] /\ emitted[j] = <<"finished">>
        /\ load_file(path[j]).ok
        /\ \E i \in 1..Len(queue) : queue[i] = [sig |-> "finished", job |-> j]

\* C4: a job that has ended has emitted "finished" exactly once, and after its
\* error if it emitted one.
C4_FinishedAfterError ==
    \A j \in Jobs :
        pc[j] = "done" =>
            /\ Count(emitted[j], "finished") = 1
            /\ emitted[j][Len(emitted[j])] = "finished"
            /\ Count(emitted[j], "error") <= 1

\* C10: stop() on a job changes that job's flag and nothing else; a job takes
\* the cancelled exit only on its own flag, and a job whose flag is not set
\* ends as its file decides.
C10_StopIsPerJob ==
    [][\A j \in Jobs :
          /\ canceled'[j] # canceled[j] =>
                /\ \A k \in Jobs \ {j} : canceled'[k] = canceled[k]
                /\ UNCHANGED <<path, pc, emitted, queue, loaded_files,
                               all_dataframes, current_df, stack>>
          /\ (emitted[j] = <<>> /\ emitted'[j] = <<"finished">>) => canceled[j]
          /\ (pc'[j] = "done" /\ ~canceled'[j]) =>
                emitted'[j] = IF Pipeline(path[j]).stage = "ok"
                              THEN <<"result", "finished">> ELSE <<"error">>]_vars

\* one job of a batch was cancelled and ended without a dataset; another job
\* of the batch delivered its dataset, which is the current one
C10_Witness ==
    \E j, k \in Jobs :
        /\ j # k /\ epoch[j] = epoch[k]
        /\ canceled[j] /\ emitted[j] = <<"finished">>
        /\ ~canceled[k] /\ emitted[k] = <<"result", "finished">>
        /\ all_dataframes = <<Df(k)>> /\ current_df = Df(k)

\* a step of the GUI thread that takes a signal sig from the queue
Delivers(sig) == queue # <<>> /\ Head(queue).sig = sig /\ queue' = Tail(queue)

\* a step of the GUI thread that closes a message box of the given kind
Closes(kind) ==
    /\ stack # <<>>
    /\ stack[Len(stack)].kind = kind
    /\ stack' = SubSeq(stack, 1, Len(stack) - 1)

ColSet(j) == Range(Df(j).cols)

\* C5: the first result delivered to _on_load_result in a session, whichever
\* job it comes from, leaves the accepted list holding exactly that dataset
\* under its file name, makes it the current dataset, and runs no comparison.
C5_FirstDeliveredIsReference ==
    [][(Delivers("result") /\ log = <<>>) =>
          LET j == Head(queue).job IN
          /\ loaded_files' = <<Filename(j)>>
          /\ all_dataframes' = <<Df(j)>>
          /\ current_df' = Df(j)
          /\ compared' = {}
          /\ stack' = stack]_vars

\* the first delivery of a batch came from the job submitted last, whose
\* columns are ordered otherwise than those of the job submitted first; the
\* jobs submitted before it are still running and will deliver a dataset
C5_Witness ==
    /\ Len(path) = 3 /\ epoch[1] = epoch[3]
    /\ log = <<3>>
    /\ all_dataframes = <<Df(3)>> /\ current_df = Df(3)
    /\ pc[1] = "fix" /\ pc[2] = "fix"
    /\ \A j \in 1..3 : Pipeline(path[j]).stage = "ok"
    /\ Df(1).cols # Df(3).cols

\* C6: when three datasets with the same column set have been delivered in a
\* session, in whatever order, the accepted list holds the three in the order
\* of delivery, the merged dataset has the sum of their rows, and its columns
\* are those of the reference.
C6_ThreeCompatibleMerged ==
    (Len(log) = 3 /\ \A i \in 1..3 : ColSet(log[i]) = ColSet(log[1])) =>
        /\ all_dataframes = [i \in 1..3 |-> Df(log[i])]
        /\ loaded_files = [i \in 1..3 |-> Filename(log[i])]
        /\ current_df.rows = Df(log[1]).rows + Df(log[2]).rows + Df(log[3]).rows
        /\ current_df.cols = Df(log[1]).cols
        /\ Range(current_df.cols) = ColSet(log[1])

\* three files of one batch, with different row counts and column orders,
\* were delivered in the reverse of the order of submission and all handled
C6_Witness ==
    /\ log = <<3, 2, 1>>
    /\ epoch[1] = epoch[3]
    /\ \A i \in 1..3 : ColSet(i) = ColSet(1)
    /\ Df(1).rows # Df(2).rows /\ Df(2).cols # Df(3).cols
    /\ queue = <<>> /\ stack = <<>>
    /\ current_df.rows = 6

\* C7: when the handling of a delivered dataset whose columns differ from the
\* reference ends (the warning is closed, nothing else having been delivered
\* meanwhile), that dataset is not in the accepted list, and the accepted
\* files, the accepted datasets and the current dataset are as before the
\* delivery.
C7_RejectionLeavesAcceptedUnchanged ==
    [][( /\ Closes("warning")
         /\ LET f == stack[Len(stack)] IN
              /\ loaded_files = Append(f.pre.files, Filename(f.job))
              /\ all_dataframes = Append(f.pre.dfs, Df(f.job))
              /\ ~compare_columns(f.pre.dfs[1], Df(f.job)).is_equal )
       => LET f == stack[Len(stack)] IN
          /\ Df(f.job) \notin Range(all_dataframes')
          /\ loaded_files' = f.pre.files
          /\ all_dataframes' = f.pre.dfs
          /\ current_df' = f.pre.cur]_vars

\* C8: clear_all leaves the accepted files, the accepted datasets and the
\* current dataset empty; the first result delivered after a reset becomes the
\* only accepted dataset and the current one, and is compared with nothing.
C8_ResetThenNewReference ==
    [][/\ resets' # resets =>
            loaded_files' = <<>> /\ all_dataframes' = <<>> /\ current_df' = None
       /\ (resets > 0 /\ log = <<>> /\ Delivers("result")) =>
            LET j == Head(queue).job IN
            /\ all_dataframes' = <<Df(j)>>
            /\ loaded_files' = <<Filename(j)>>
            /\ current_df' = Df(j)
            /\ compared' = {}]_vars

\* a dataset was accepted, the session was reset, and a dataset with other
\* columns was delivered next: it is the reference
C8_Witness ==
    \E k, j \in Jobs :
        /\ epoch[k] < resets /\ emitted[k] = <<"result", "finished">>
        /\ \A i \in 1..Len(queue) : queue[i].job # k
        /\ epoch[j] = resets /\ log = <<j>>
        /\ ColSet(j) # ColSet(k)
        /\ all_dataframes = <<Df(j)>> /\ current_df = Df(j)

\* C9: _on_load_error, from the delivery of the error to the closing of its
\* message box, changes neither the accepted files, the accepted datasets nor
\* the current dataset, and leaves every job, every other queued signal and
\* every open handler as they are.
C9_ErrorTouchesNothing ==
    [][/\ Delivers("error") =>
            /\ UNCHANGED <<loaded_files, all_dataframes, current_df>>
            /\ UNCHANGED <<path, pc, canceled, emitted>>
            /\ SubSeq(stack', 1, Len(stack)) = stack
       /\ Closes("critical") =>
            /\ UNCHANGED <<loaded_files, all_dataframes, current_df>>
            /\ UNCHANGED <<path, pc, canceled, emitted, queue>>]_vars

\* a job of a batch failed after a dataset of the batch was accepted; while
\* its error box was open another job of the batch delivered and was merged,
\* and the error box has now been closed
C9_Witness ==
    \E k \in Jobs :
        /\ emitted[k] = <<"error">>
        /\ Len(log) = 2 /\ epoch[k] = epoch[log[2]]
        /\ Len(stack) = 1 /\ stack[1].kind = "information" /\ stack[1].job = log[2]
        /\ stack[1].pre.dfs = <<Df(log[1])>>
        /\ \A i \in 1..Len(queue) : queue[i].job # k
        /\ all_dataframes = <<Df(log[1]), Df(log[2])>> /\ current_df.src = 0
        /\ pc[log[2]] = "emitted"

\* C11: compare_columns is symmetric: with the arguments swapped the verdict
\* and the common list are the same and the two only-lists change places; and
\* a first argument with the same column names, in another order and with
\* other rows, gives the same verdict and the same three lists.
C11_CompareSymmetric ==
    call.fn = "compare_columns" =>
        LET r == call.out[1]
            swapped == call.out[2]
            o == call.out[3]
        IN  /\ swapped.is_equal = r.is_equal
            /\ swapped.common = r.common
            /\ swapped.only_in_df1 = r.only_in_df2
            /\ swapped.only_in_df2 = r.only_in_df1
            /\ o.is_equal = r.is_equal
            /\ o.common = r.common
            /\ o.only_in_df1 = r.only_in_df1
            /\ o.only_in_df2 = r.only_in_df2

\* C11 witness: two datasets that share two columns in a different order and
\* each have a column of their own, compared with one of other order and rows
C11_Witness ==
    /\ call.fn = "compare_columns"
    /\ Len(call.out[1].common) = 1
    /\ call.out[1].only_in_df1 # <<>>
    /\ call.out[1].only_in_df2 # <<>>
    /\ call.in[3].cols # call.in[1].cols
    /\ call.in[3].rows # call.in[1].rows
    /\ call.in[2].rows # call.in[1].rows

\* C12: compare_columns reports equality exactly when both only-lists are
\* empty, and exactly when the two datasets have the same set of column
\* names, case kept; the three lists are pairwise disjoint and together hold
\* every column name of both datasets.
C12_EqualIffSameNames ==
    call.fn = "compare_columns" =>
        LET r == call.out[1]
            names1 == Range(call.in[1].cols)
            names2 == Range(call.in[2].cols)
            only1 == Range(r.only_in_df1)
            only2 == Range(r.only_in_df2)
            both == Range(r.common)
        IN  /\ r.is_equal <=> (r.only_in_df1 = <<>> /\ r.only_in_df2 = <<>>)
            /\ r.is_equal <=> (names1 = names2)
            /\ only1 \cap only2 = {}
            /\ only1 \cap both = {}
            /\ only2 \cap both = {}
            /\ only1 \cup only2 \cup both = names1 \cup names2

\* C12 witness: two datasets whose names differ in case only, found unequal
C12_Witness ==
    /\ call.fn = "compare_columns"
    /\ call.in[1].cols = <<<<"x">>, <<"y">>>>
    /\ call.in[2].cols = <<<<"y">>, <<"X">>>>
    /\ ~call.out[1].is_equal
    /\ call.out[1].common = <<<<"y">>>>

\* the first position of name n among the header cells h, read as
\* str(c).replace("\n", " ").strip(); 0 when no cell reads n
FirstAs(h, n) ==
    LET at == {i \in 1..Len(h) : Strip(ReplaceNewline(ToStr(h[i]))) = n}
    IN  IF at = {} THEN 0 ELSE CHOOSE i \in at : \A k \in at : i <= k

\* C13, as stated: whatever the header row, no column name that fix_columns
\* returns is empty, none is "none" in any case, no two are equal, and the
\* names stand in the order of their first occurrence in the header row.
C13_HeaderCleanAndUnique ==
    (call.fn = "fix_columns" /\ call.out.ok) =>
        LET c == call.out.cols IN
        /\ \A i \in 1..Len(c) : c[i] # <<>>
        /\ \A i \in 1..Len(c) : Lower(c[i]) # <<"n", "o", "n", "e">>
        /\ \A i, k \in 1..Len(c) : i # k => c[i] # c[k]
        /\ \A i \in 1..Len(c) : FirstAs(call.in, c[i]) > 0
        /\ \A i, k \in 1..Len(c) :
              i < k => FirstAs(call.in, c[i]) < FirstAs(call.in, c[k])

\* C14, as stated: a cell that is absent in the argument of
\* normalize_dataframe is absent in its result, and is not text.
C14_AbsentStaysAbsent ==
    call.fn = "normalize_dataframe" =>
        \A i \in 1..Len(call.in) : \A k \in 1..Len(call.in[i]) :
            call.in[i][k].t = "nan" => call.out[i][k].t = "nan"

\* C18, as stated: normalize_dataframe treats every column alike whatever its
\* position: the numeric coercion is tried on every column, so every cell of
\* the result is a number or absent, and two columns with the same cells in
\* the argument have the same cells in the result.
C18_EveryColumnCoerced ==
    call.fn = "normalize_dataframe" =>
        /\ \A i \in 1..Len(call.out) : \A k \in 1..Len(call.out[i]) :
              call.out[i][k].t \in {"num", "nan"}
        /\ \A i, j \in 1..Len(call.in) :
              call.in[i] = call.in[j] => call.out[i] = call.out[j]

\* C15, as stated: load_file on a pdf without a table and without text on
\* any page, a pdf of no page included, raises and returns no dataset.
C15_EmptyPdfRaises ==
    (/\ call.fn = "load_file"
     /\ \A i \in 1..Len(call.in) :
           call.in[i].tables = <<>> /\ call.in[i].text = <<>>)
        => ~call.out.ok

\* C16, as stated: the results are handled one after the other: no result is
\* delivered to _on_load_result while an earlier call of _on_load_result has
\* not returned from _validate_and_merge_dataframes (it waits in the warning
\* of an incompatible dataset not yet removed, or in the box of the merge).
C16_ResultsHandledOneByOne ==
    [][Delivers("result") =>
          \A i \in 1..Len(stack) : stack[i].kind \notin {"warning", "information"}]_vars

\* C17, as stated: a job whose flag is set after the checkpoint that follows
\* load_file and before fix_columns has returned emits "finished" only, and
\* no result.
C17_CheckpointAfterRepair ==
    [][\A j \in Jobs :
          ( /\ pc[j] = "fix"
            /\ canceled[j]
            /\ Pipeline(path[j]).stage = "ok"
            /\ pc'[j] # pc[j] )
          => pc'[j] = "done" /\ emitted'[j] = <<"finished">>]_vars

\* C19, as stated: whenever no handler is in progress, every accepted dataset
\* has the column names of the first one, and loaded_files and all_dataframes
\* have the same length, loaded_files[i] being the name of the file that
\* all_dataframes[i] was read from.
C19_AcceptedListConsistent ==
    stack = <<>> =>
        /\ Len(loaded_files) = Len(all_dataframes)
        /\ \A i \in 1..Len(all_dataframes) :
              Range(all_dataframes[i].cols) = Range(all_dataframes[1].cols)
        /\ \A i \in 1..Len(all_dataframes) :
              i <= Len(loaded_files) =>
                  loaded_files[i] = Filename(all_dataframes[i].src)

\* C20, as stated: every dataset in all_dataframes comes from a job that was
\* submitted after the last clear_all; in particular the first one does.
C20_NoDatasetFromBeforeReset ==
    \A i \in 1..Len(all_dataframes) : epoch[all_dataframes[i].src] = resets
====
